---------------------------- MODULE Spec2Model ----------------------------
(***************************************************************************)
(* Model of joycon/USBSwitchController.py: the command channel             *)
(* (send_command), the UART and bluetooth-subcommand encapsulations and    *)
(* the device-info decoder of a USB-connected Switch controller.           *)
(*                                                                         *)
(* A controller instance is a single blocking thread of control.  One      *)
(* public call is modelled as: the step that builds the request and does   *)
(* the first usb_write, then one step per iteration of the `while True`    *)
(* loop of send_command (usb_read, parse, test, resend), the last of which *)
(* also runs the caller's post-processing of the returned value.           *)
(* Bytes are integers 0..255, byte strings are sequences (1-based, so      *)
(* Python's pkt[k] is pkt[k+1] here).                                      *)
(***************************************************************************)
EXTENDS Integers, Sequences, FiniteSets, TLC

VARIABLES
    pc,                 \* per instance: "idle", "wait" (inside the read loop), "ret"
    op,                 \* per instance: the public call in progress
    command,            \* per instance: send_command's `command` argument
    response_length,    \* per instance: send_command's `response_length` argument
    resp,               \* per instance: send_command's `resp` (last parsed UsbResponse)
    warned,             \* per instance: the 'resp ... error' line was printed
    io,                 \* per instance: transport operations of the call, in order
    returned,           \* per instance: what send_command returned or raised
    out,                \* per instance: what the public call returned or raised
    lock_dfu_command,   \* per instance: self.lock_dfu_command
    endpoint_in,        \* per instance: self.endpoint_in
    endpoint_out        \* per instance: self.endpoint_out

vars == <<pc, op, command, response_length, resp, warned, io, returned, out,
          lock_dfu_command, endpoint_in, endpoint_out>>

---------------------------------------------------------------------------
(* Bounds of the model *)

\* most usb_read calls modelled within one send_command call
MaxReads == 4
\* longest argument handed to send_uart_command / send_bluetooth_command
MaxArgLen == 1
\* the header specification packs every argument length up to this one, and
\* a few long ones
HeaderSmallMax == 300

---------------------------------------------------------------------------
(* Program constants *)

COMMAND_DEVICE_INFO       == <<128, 1>>
COMMAND_UART_PAIR         == <<128, 2>>
COMMAND_RESTRICT_TO_HID   == <<128, 4>>
COMMAND_SEND_UART_COMMAND == <<128, 146>>
COMMAND_ENTER_DFU         == <<130, 1>>
COMMAND_RESET             == <<130, 2>>
UART_COMMAND_SEND_BT_CMD  == 0
USB_BUF_LEN               == 64

\* the two interfaces of the charging grip (test.py: interface=0 and interface=1)
Instances == {0, 1}

Byte == 0 .. 255

---------------------------------------------------------------------------
(* Python byte-string primitives *)

Min(a, b) == IF a < b THEN a ELSE b

\* s[a:b] for 0 <= a, 0 <= b: never raises, silently truncates
Slice(s, a, b) == SubSeq(s, a + 1, Min(b, Len(s)))

\* s[a:]
SliceFrom(s, a) == SubSeq(s, a + 1, Len(s))

\* x | 1 on a byte
Or1(x) == IF x % 2 = 0 THEN x + 1 ELSE x

\* array.array('B', [0] * length)
Zeros(length) == [k \in 1 .. length |-> 0]


---------------------------------------------------------------------------
(* The endpoints of an instance *)

\* dev.get_active_configuration() of the charging grip: one HID interface per
\* joycon, each with an interrupt IN and an interrupt OUT endpoint
\* (bEndpointAddress 0x81/0x01 and 0x82/0x02)
GripConfiguration ==
    << [bInterfaceNumber |-> 0, endpoints |-> <<129, 1>>],
       [bInterfaceNumber |-> 1, endpoints |-> <<130, 2>>] >>

\* self.endpoint_in = None, self.endpoint_out = None
NoEndpoints == [endpoint_in |-> -1, endpoint_out |-> -1]

\* the inner loop of _determine_endpoints: each endpoint of the interface
\* sets endpoint_in or endpoint_out by the direction bit of its address
RECURSIVE scan_endpoints(_, _)
scan_endpoints(found, eps) ==
    IF eps = <<>> THEN found
    ELSE scan_endpoints(
             IF eps[1] >= 128
             THEN [found EXCEPT !.endpoint_in = eps[1]]
             ELSE [found EXCEPT !.endpoint_out = eps[1]],
             Tail(eps))

\* the outer loop of _determine_endpoints without its `continue`: every
\* interface sets the endpoints, the last one wins
RECURSIVE scan_interfaces_unfiltered(_, _, _)
scan_interfaces_unfiltered(found, interfaces, interface_number) ==
    IF interfaces = <<>> THEN found
    ELSE scan_interfaces_unfiltered(
             scan_endpoints(found, interfaces[1].endpoints),
             Tail(interfaces), interface_number)

\* the outer loop of _determine_endpoints: interfaces with another number
\* are skipped
RECURSIVE scan_interfaces(_, _, _)
scan_interfaces(found, interfaces, interface_number) ==
    IF interfaces = <<>> THEN found
    ELSE scan_interfaces(
             IF interfaces[1].bInterfaceNumber # interface_number
             THEN found
             ELSE scan_endpoints(found, interfaces[1].endpoints),
             Tail(interfaces), interface_number)

\* determine_endpoints over every interface, whatever its number
determine_endpoints_any_interface(interface_number) ==
    scan_interfaces_unfiltered(NoEndpoints, GripConfiguration, interface_number)

\* _determine_endpoints(interface_number)
determine_endpoints(interface_number) ==
    scan_interfaces(NoEndpoints, GripConfiguration, interface_number)

---------------------------------------------------------------------------
(* Values a call can produce.  One record shape for None, bytes, bool, the  *)
(* device-info dict and a raised exception.  The 48-bit mac does not fit    *)
(* TLC's integers: it is kept as two 24-bit halves,                         *)
(* mac = lo + 2^24 * hi.                                                    *)

NoMac == [lo |-> 0, hi |-> 0]

RNone == [kind |-> "None", bytes |-> <<>>, flag |-> FALSE, type |-> 0, mac |-> NoMac, exc |-> ""]

RBytes(b) == [RNone EXCEPT !.kind = "bytes", !.bytes = b]

RBool(f) == [RNone EXCEPT !.kind = "bool", !.flag = f]

RDict(t, m) == [RNone EXCEPT !.kind = "dict", !.type = t, !.mac = m]

RRaise(e) == [RNone EXCEPT !.kind = "raise", !.exc = e]

\* resp = None
NoResp == [is_none |-> TRUE, cmd_type |-> 0, cmd |-> 0, status |-> 0, data |-> <<>>]

\* the public call in progress: its name and arguments
Call(name, raw, cmd, sub, arg, rlen) ==
    [name |-> name, raw |-> raw, cmd |-> cmd, sub |-> sub, arg |-> arg, rlen |-> rlen]

NoCall == Call("", FALSE, 0, 0, <<>>, 0)

---------------------------------------------------------------------------
(* Packet transport *)

\* usb_write: one transport write; dev.write either succeeds or raises USBError
WriteEvent(ep, packet, wok) == [kind |-> "w", ep |-> ep, ok |-> wok, bytes |-> packet]

\* usb_write catching USBError the way usb_read does
usb_write_swallows(wok) == FALSE

\* usb_write has no try/except: when dev.write raises USBError, so does it
usb_write_raises(wok) == ~wok

\* usb_read answering a failed read with three zero bytes, the header alone
usb_read_header_only(rx) == IF rx.ok THEN rx.pkt ELSE Zeros(3)

\* usb_read as send_command calls it (no length: USB_BUF_LEN).  rx is what
\* dev.read does: deliver a packet, or raise USBError (timeout), which
\* usb_read turns into an all-zero buffer.
usb_read(rx) == IF rx.ok THEN rx.pkt ELSE Zeros(USB_BUF_LEN)

ReadEvent(ep, rx) == [kind |-> "r", ep |-> ep, ok |-> rx.ok, bytes |-> usb_read(rx)]

\* class UsbResponse
UsbResponse(pkt, data_len) ==
    [is_none  |-> FALSE,
     cmd_type |-> pkt[1],
     cmd      |-> pkt[2],
     status   |-> pkt[3],
     data     |-> Slice(pkt, 3, 3 + data_len)]

\* Correlated with the response bit forgotten: `resp.cmd_type == command[0]`
Correlated_no_response_bit(r, cmd) == r.cmd_type = cmd[1] /\ r.cmd = cmd[2]

\* the loop's first test: the response answers `cmd`
Correlated(r, cmd) == r.cmd_type = Or1(cmd[1]) /\ r.cmd = cmd[2]

\* FatalShortcut testing the request's tag (0x80, 0x01) instead of the response's
FatalShortcut_request_tag(r) == r.cmd_type = 128 /\ r.cmd = 1 /\ r.status # 0

\* the loop's second test: the firmware's empty device-info response after an error
FatalShortcut(r) == r.cmd_type = 129 /\ r.cmd = 1 /\ r.status # 0

\* Verdict with the two tests in the other order
\* Verdict treating a timed-out read (an all-zero header) as the end of the
\* call
Verdict_gives_up_on_timeout(r, cmd) ==
    IF r.cmd_type = Or1(cmd[1]) /\ r.cmd = cmd[2] THEN "break"
    ELSE IF r.cmd_type = 129 /\ r.cmd = 1 /\ r.status # 0 THEN "abort"
    ELSE IF r.cmd_type = 0 /\ r.cmd = 0 THEN "abort"
    ELSE "resend"

Verdict_fatal_first(r, cmd) ==
    IF r.cmd_type = 129 /\ r.cmd = 1 /\ r.status # 0 THEN "abort"
    ELSE IF r.cmd_type = Or1(cmd[1]) /\ r.cmd = cmd[2] THEN "break"
    ELSE "resend"

\* what one iteration of the loop does with the parsed response, in the
\* order the code tests: break, return None, or resend
Verdict(r, cmd) ==
    IF Correlated(r, cmd) THEN "break"
    ELSE IF FatalShortcut(r) THEN "abort"
    ELSE "resend"

\* NoResponseWanted testing `response_length is None`, which 0 is not
NoResponseWanted_is_none(resp_len) == resp_len < 0

\* `if response_length == 0: return None`
NoResponseWanted(resp_len) == resp_len = 0

\* Resend left out: the loop reads again without writing
Resend_skipped(log, ep, cmd, wok) == log

\* the resend at the end of an iteration: usb_write(command)
Resend(log, ep, cmd, wok) == Append(log, WriteEvent(ep, cmd, wok))

\* after the loop: the status only decides whether the error line is printed
StatusWarning(r) == r.status # 0

\* send_command_return treating a nonzero status as a failure
send_command_return_status_none(r) == IF r.status # 0 THEN RNone ELSE RBytes(r.data)

\* after the loop: return resp.data
send_command_return(r) == RBytes(r.data)

---------------------------------------------------------------------------
(* Encapsulation and decoding: the pure parts of the public calls *)

\* largest value struct's "H" format packs
U16Max == 65535

\* StructPack with the format ">BHBBB": the length high byte first
StructPack_big_endian(cmd, n) ==
    IF cmd \in Byte /\ n \in 0 .. U16Max
    THEN [err |-> FALSE, bytes |-> <<cmd, n \div 256, n % 256, 0, 0, 0>>]
    ELSE [err |-> TRUE, bytes |-> <<>>]

\* StructPack with a fourth reserved byte: "<BHBBBB"
StructPack_four_reserved(cmd, n) ==
    IF cmd \in Byte /\ n \in 0 .. U16Max
    THEN [err |-> FALSE, bytes |-> <<cmd, n % 256, n \div 256, 0, 0, 0, 0>>]
    ELSE [err |-> TRUE, bytes |-> <<>>]

\* struct.pack("<BHBBB", command, n, 0, 0, 0); struct.error outside the ranges
StructPack(cmd, n) ==
    IF cmd \in Byte /\ n \in 0 .. U16Max
    THEN [err |-> FALSE, bytes |-> <<cmd, n % 256, n \div 256, 0, 0, 0>>]
    ELSE [err |-> TRUE, bytes |-> <<>>]

\* send_uart_command, up to the send_command call: the request it writes
uart_packet(cmd, argument) ==
    LET command_header == StructPack(cmd, Len(argument))
    IN  IF command_header.err
        THEN [err |-> "struct.error", bytes |-> <<>>]
        ELSE [err |-> "",
              bytes |-> COMMAND_SEND_UART_COMMAND \o command_header.bytes \o argument]

\* an all-zero rumble block
rumble_silent == <<0, 0, 0, 0, 0, 0, 0, 0, 0>>

rumble == <<0, 0, 1, 64, 64, 0, 1, 64, 64>>

\* send_bluetooth_command, up to the send_uart_command call: the UART argument
\* it builds; int.to_bytes(1, ...) raises OverflowError outside 0..255
bt_packet(cmd, subcommand, argument) ==
    IF cmd \in Byte /\ subcommand \in Byte
    THEN [err |-> "", bytes |-> <<cmd>> \o rumble \o <<subcommand>> \o argument]
    ELSE [err |-> "OverflowError", bytes |-> <<>>]

\* int.from_bytes(b, byteorder='little') for at most 3 bytes
RECURSIVE FromBytesLittle(_)
FromBytesLittle(b) == IF b = <<>> THEN 0 ELSE b[1] + 256 * FromBytesLittle(Tail(b))

\* int.from_bytes(b, byteorder='little') for at most 6 bytes, as two halves
FromBytesLittle48(b) ==
    [lo |-> FromBytesLittle(Slice(b, 0, 3)), hi |-> FromBytesLittle(Slice(b, 3, 6))]

\* read_device_info_result reading the mac one byte late: info[2:8]
read_device_info_result_mac_late(raw, info) ==
    IF info.kind = "raise" THEN info
    ELSE IF raw THEN info
    ELSE IF info.kind = "None" THEN RRaise("TypeError")
    ELSE RDict(FromBytesLittle(Slice(info.bytes, 0, 1)),
               FromBytesLittle48(Slice(info.bytes, 2, 8)))

\* read_device_info after its send_command returned `info`
read_device_info_result(raw, info) ==
    IF info.kind = "raise" THEN info
    ELSE IF raw THEN info
    ELSE IF info.kind = "None" THEN RRaise("TypeError")
    ELSE RDict(FromBytesLittle(Slice(info.bytes, 0, 1)),
               FromBytesLittle48(Slice(info.bytes, 1, 7)))

\* pair_via_uart_result reporting success whatever send_command returned
pair_via_uart_result_always_true(response) ==
    IF response.kind = "raise" THEN response ELSE RBool(TRUE)

\* pair_via_uart after its send_command returned `response`
pair_via_uart_result(response) ==
    IF response.kind = "raise" THEN response ELSE RBool(response.kind # "None")

\* restrict_to_hid after its send_command returned
restrict_to_hid_result(response) ==
    IF response.kind = "raise" THEN response ELSE RNone

\* reset after its send_command returned: reconnect() reads `self`, a name
\* that function does not have (its parameter is `s`)
reset_result(response) ==
    IF response.kind = "raise" THEN response ELSE RRaise("NameError")

\* send_uart_command after its send_command returned `raw_response`
send_uart_command_result(raw_response) ==
    IF raw_response.kind = "raise" THEN raw_response
    ELSE IF raw_response.kind = "None" THEN RRaise("TypeError")
    ELSE RBytes(SliceFrom(raw_response.bytes, 7))

\* send_bluetooth_command_result with the payload taken from byte 10, as the
\* code's comment has it
send_bluetooth_command_result_from_10(raw_response, resp_len) ==
    IF raw_response.kind = "raise" THEN raw_response
    ELSE RBytes(Slice(raw_response.bytes, 10, 10 + resp_len))

\* send_bluetooth_command after its send_uart_command returned `raw_response`
send_bluetooth_command_result(raw_response, resp_len) ==
    IF raw_response.kind = "raise" THEN raw_response
    ELSE RBytes(Slice(raw_response.bytes, 15, 15 + resp_len))

\* what the public call `o` makes of the value `r` its send_command produced
Post(o, r) ==
    CASE o.name = "send_command"           -> r
      [] o.name = "read_device_info"       -> read_device_info_result(o.raw, r)
      [] o.name = "pair_via_uart"          -> pair_via_uart_result(r)
      [] o.name = "restrict_to_hid"        -> restrict_to_hid_result(r)
      [] o.name = "reset"                  -> reset_result(r)
      [] o.name = "send_uart_command"      -> send_uart_command_result(r)
      [] o.name = "send_bluetooth_command" ->
             send_bluetooth_command_result(send_uart_command_result(r), o.rlen)

---------------------------------------------------------------------------
(* The inputs the model draws from *)

\* payload byte k (1-based) of a packet filled by the device: all positions differ
Pattern(seed, n) == [k \in 1 .. n |-> (seed + k) % 256]

\* a device packet: the three header bytes, then the payload
Packet(cmd_type, cmd, status, payload) == <<cmd_type, cmd, status>> \o payload

Delivered(pkt) == [ok |-> TRUE, pkt |-> pkt]

\* dev.read raised USBError (timeout)
TimedOut == [ok |-> FALSE, pkt |-> <<>>]

\* device-info payload: type 1, mac 0x112233445566 little-endian, one more byte
DevInfoPayload(last) == <<1, 102, 85, 68, 51, 34, 17, last>>

\* what one dev.read can do
Deliveries ==
    { TimedOut,
      Delivered(Packet(129, 1, 0, DevInfoPayload(153) \o Pattern(16, 53))),
      Delivered(Packet(129, 1, 0, DevInfoPayload(7))),
      Delivered(Packet(129, 1, 5, Pattern(32, 61))),
      Delivered(Packet(129, 2, 0, Pattern(48, 61))),
      Delivered(Packet(129, 2, 7, Pattern(56, 61))),
      Delivered(Packet(129, 146, 0, Pattern(64, 61))),
      Delivered(Packet(129, 146, 9, Pattern(80, 61))),
      Delivered(Packet(129, 146, 0, Pattern(96, 20))),
      Delivered(Packet(131, 2, 3, Pattern(112, 4))) }

\* arguments handed to send_uart_command / send_bluetooth_command
Arguments == { Pattern(200, n) : n \in 0 .. MaxArgLen }

\* direct send_command calls
Commands ==
    { COMMAND_DEVICE_INFO, COMMAND_RESET, COMMAND_ENTER_DFU }

ResponseLengths == {0, 8, USB_BUF_LEN}

UartCommands == {90, 256}

BtResponseLengths == {12, 35}

---------------------------------------------------------------------------
(* The state machine *)

\* __init__: lock_dfu_command = True, the endpoints of the instance's
\* interface; nothing in progress
Init ==
    /\ pc = [i \in Instances |-> "idle"]
    /\ op = [i \in Instances |-> NoCall]
    /\ command = [i \in Instances |-> <<>>]
    /\ response_length = [i \in Instances |-> 0]
    /\ resp = [i \in Instances |-> NoResp]
    /\ warned = [i \in Instances |-> FALSE]
    /\ io = [i \in Instances |-> <<>>]
    /\ returned = [i \in Instances |-> RNone]
    /\ out = [i \in Instances |-> RNone]
    /\ lock_dfu_command = [i \in Instances |-> TRUE]
    /\ endpoint_in = [i \in Instances |-> determine_endpoints(i).endpoint_in]
    /\ endpoint_out = [i \in Instances |-> determine_endpoints(i).endpoint_out]

NumReads(log) == Cardinality({k \in 1 .. Len(log) : log[k].kind = "r"})

NumWrites(log) == Cardinality({k \in 1 .. Len(log) : log[k].kind = "w"})

\* a public call that raises before it reaches the transport
fail_call(i, o, exc) ==
    /\ pc[i] = "idle"
    /\ pc' = [pc EXCEPT ![i] = "ret"]
    /\ op' = [op EXCEPT ![i] = o]
    /\ out' = [out EXCEPT ![i] = RRaise(exc)]
    /\ UNCHANGED <<command, response_length, resp, warned, io, returned,
                   lock_dfu_command, endpoint_in, endpoint_out>>

\* send_command, lines 180-187: resp = None, the first usb_write, and the
\* return when no response is wanted.  wok: dev.write succeeds.
send_command(i, o, cmd, resp_len, wok) ==
    /\ pc[i] = "idle"
    /\ op' = [op EXCEPT ![i] = o]
    /\ command' = [command EXCEPT ![i] = cmd]
    /\ response_length' = [response_length EXCEPT ![i] = resp_len]
    /\ resp' = [resp EXCEPT ![i] = NoResp]
    /\ io' = [io EXCEPT ![i] = <<WriteEvent(endpoint_out[i], cmd, wok)>>]
    /\ IF usb_write_raises(wok)
       THEN /\ pc' = [pc EXCEPT ![i] = "ret"]
            /\ returned' = [returned EXCEPT ![i] = RRaise("USBError")]
            /\ out' = [out EXCEPT ![i] = Post(o, RRaise("USBError"))]
       ELSE IF NoResponseWanted(resp_len)
       THEN /\ pc' = [pc EXCEPT ![i] = "ret"]
            /\ returned' = [returned EXCEPT ![i] = RNone]
            /\ out' = [out EXCEPT ![i] = Post(o, RNone)]
       ELSE /\ pc' = [pc EXCEPT ![i] = "wait"]
            /\ UNCHANGED <<returned, out>>
    /\ UNCHANGED <<warned, lock_dfu_command, endpoint_in, endpoint_out>>

\* send_command, lines 189-215: one iteration of the loop and, when the loop
\* ends, the return and the caller's use of the value.
\* rx: what dev.read does; wok: the resend's dev.write succeeds; logged: the
\* iteration's transport operations are recorded in io.
send_command_iteration(i, rx, wok, logged) ==
    /\ pc[i] = "wait"
    /\ LET raw_response == usb_read(rx)
           r == UsbResponse(raw_response, response_length[i])
           v == Verdict(r, command[i])
           log == Append(io[i], ReadEvent(endpoint_in[i], rx))
       IN  /\ resp' = [resp EXCEPT ![i] = r]
           /\ IF v = "break"
              THEN /\ io' = [io EXCEPT ![i] = IF logged THEN log ELSE @]
                   /\ warned' = [warned EXCEPT ![i] = StatusWarning(r)]
                   /\ pc' = [pc EXCEPT ![i] = "ret"]
                   /\ returned' = [returned EXCEPT ![i] = send_command_return(r)]
                   /\ out' = [out EXCEPT ![i] = Post(op[i], send_command_return(r))]
              ELSE IF v = "abort"
              THEN /\ io' = [io EXCEPT ![i] = IF logged THEN log ELSE @]
                   /\ pc' = [pc EXCEPT ![i] = "ret"]
                   /\ returned' = [returned EXCEPT ![i] = RNone]
                   /\ out' = [out EXCEPT ![i] = Post(op[i], RNone)]
                   /\ UNCHANGED warned
              ELSE /\ io' = [io EXCEPT ![i] =
                                IF logged
                                THEN Resend(log, endpoint_out[i], command[i], wok)
                                ELSE @]
                   /\ IF ~usb_write_raises(wok)
                      THEN UNCHANGED <<pc, returned, out>>
                      ELSE /\ pc' = [pc EXCEPT ![i] = "ret"]
                           /\ returned' = [returned EXCEPT ![i] = RRaise("USBError")]
                           /\ out' = [out EXCEPT ![i] = Post(op[i], RRaise("USBError"))]
                   /\ UNCHANGED warned
    /\ UNCHANGED <<op, command, response_length, lock_dfu_command,
                   endpoint_in, endpoint_out>>

\* an iteration of the loop while the call has made fewer than MaxReads reads
send_command_loop(i, rx, wok) ==
    /\ NumReads(io[i]) < MaxReads
    /\ send_command_iteration(i, rx, wok, TRUE)

\* an iteration of the loop after MaxReads reads: the loop has no counter and
\* goes on the same, only io no longer records it
send_command_loop_beyond(i, rx, wok) ==
    /\ NumReads(io[i]) >= MaxReads
    /\ send_command_iteration(i, rx, wok, FALSE)

\* the caller takes the result; the instance is ready for its next call
Return(i) ==
    /\ pc[i] = "ret"
    /\ pc' = [pc EXCEPT ![i] = "idle"]
    /\ op' = [op EXCEPT ![i] = NoCall]
    /\ command' = [command EXCEPT ![i] = <<>>]
    /\ response_length' = [response_length EXCEPT ![i] = 0]
    /\ resp' = [resp EXCEPT ![i] = NoResp]
    /\ warned' = [warned EXCEPT ![i] = FALSE]
    /\ io' = [io EXCEPT ![i] = <<>>]
    /\ returned' = [returned EXCEPT ![i] = RNone]
    /\ out' = [out EXCEPT ![i] = RNone]
    /\ UNCHANGED <<lock_dfu_command, endpoint_in, endpoint_out>>

\* a direct send_command(command, response_length) call
call_send_command(i, cmds, lens) ==
    \E cmd \in cmds, n \in lens, wok \in BOOLEAN :
        send_command(i, Call("send_command", FALSE, 0, 0, cmd, n), cmd, n, wok)

read_device_info(i) ==
    \E raw \in BOOLEAN, wok \in BOOLEAN :
        send_command(i, Call("read_device_info", raw, 0, 0, <<>>, 0),
                     COMMAND_DEVICE_INFO, 8, wok)

pair_via_uart(i) ==
    \E wok \in BOOLEAN :
        send_command(i, Call("pair_via_uart", FALSE, 0, 0, <<>>, 0),
                     COMMAND_UART_PAIR, USB_BUF_LEN, wok)

restrict_to_hid(i) ==
    \E wok \in BOOLEAN :
        send_command(i, Call("restrict_to_hid", FALSE, 0, 0, <<>>, 0),
                     COMMAND_RESTRICT_TO_HID, 0, wok)

reset(i) ==
    \E wok \in BOOLEAN :
        send_command(i, Call("reset", FALSE, 0, 0, <<>>, 0), COMMAND_RESET, 0, wok)

\* unlock_dfu doing what its comment says it could: clearing the lock
unlock_dfu_clears_lock(i) ==
    /\ pc[i] = "idle"
    /\ pc' = [pc EXCEPT ![i] = "ret"]
    /\ op' = [op EXCEPT ![i] = Call("unlock_dfu", FALSE, 0, 0, <<>>, 0)]
    /\ out' = [out EXCEPT ![i] = RNone]
    /\ lock_dfu_command' = [lock_dfu_command EXCEPT ![i] = FALSE]
    /\ UNCHANGED <<command, response_length, resp, warned, io, returned,
                   endpoint_in, endpoint_out>>

\* unlock_dfu takes no self and names an exception class that does not exist:
\* called on an instance it raises TypeError, called on the class NameError
unlock_dfu(i) ==
    \E exc \in {"TypeError", "NameError"} :
        fail_call(i, Call("unlock_dfu", FALSE, 0, 0, <<>>, 0), exc)

\* switch_to_dfu: IOError while locked; past the lock it reads `s`, a name it
\* does not have
switch_to_dfu(i) ==
    fail_call(i, Call("switch_to_dfu", FALSE, 0, 0, <<>>, 0),
              IF lock_dfu_command[i] THEN "IOError" ELSE "NameError")

send_uart_command(i, cmds, args) ==
    \E cmd \in cmds, argument \in args, wok \in BOOLEAN :
        LET o == Call("send_uart_command", FALSE, cmd, 0, argument, 0)
            packet == uart_packet(cmd, argument)
        IN  IF packet.err # ""
            THEN fail_call(i, o, packet.err)
            ELSE send_command(i, o, packet.bytes, USB_BUF_LEN, wok)

send_bluetooth_command(i, cmds, subs, args, lens) ==
    \E cmd \in cmds, subcommand \in subs, argument \in args, n \in lens, wok \in BOOLEAN :
        LET o == Call("send_bluetooth_command", FALSE, cmd, subcommand, argument, n)
            inner == bt_packet(cmd, subcommand, argument)
            packet == uart_packet(UART_COMMAND_SEND_BT_CMD, inner.bytes)
        IN  IF inner.err # ""
            THEN fail_call(i, o, inner.err)
            ELSE IF packet.err # ""
            THEN fail_call(i, o, packet.err)
            ELSE send_command(i, o, packet.bytes, USB_BUF_LEN, wok)

\* one instance in use, the other constructed and idle
Next ==
    \/ call_send_command(0, Commands, ResponseLengths)
    \/ read_device_info(0)
    \/ pair_via_uart(0)
    \/ restrict_to_hid(0)
    \/ reset(0)
    \/ unlock_dfu(0)
    \/ switch_to_dfu(0)
    \/ send_uart_command(0, UartCommands, Arguments)
    \/ send_bluetooth_command(0, {1, 256}, {2}, Arguments, BtResponseLengths)
    \/ \E rx \in Deliveries, wok \in BOOLEAN : send_command_loop(0, rx, wok)
    \/ Return(0)

Spec == Init /\ [][Next]_vars

---------------------------------------------------------------------------
(* send_uart_command over the range of the header's length field: arguments *)
(* of every length up to HeaderSmallMax and at the end of the 16-bit range, *)
(* answered at once by the device.                                          *)

HeaderLengths == (0 .. HeaderSmallMax) \cup {4660, U16Max, U16Max + 1}

HeaderArguments == { Pattern(200, n) : n \in HeaderLengths }

HeaderCommands == {90, 255, 256}

HeaderDeliveries == { Delivered(Packet(129, 146, 0, Pattern(64, 61))) }

NextHeader ==
    \/ send_uart_command(0, HeaderCommands, HeaderArguments)
    \/ \E rx \in HeaderDeliveries : send_command_loop(0, rx, TRUE)
    \/ Return(0)

SpecHeader == Init /\ [][NextHeader]_vars

---------------------------------------------------------------------------
(* read_device_info over device-info payloads: every 8-byte payload over    *)
(* three byte values, and the payload of mac 0x112233445566.                *)

DecodeBytes == {0, 1, 255}

DecodePayloads == [1 .. 8 -> DecodeBytes] \cup { DevInfoPayload(b) : b \in {0, 153} }

DecodeDeliveries == { Delivered(Packet(129, 1, 0, p)) : p \in DecodePayloads }

NextDecode ==
    \/ read_device_info(0)
    \/ \E rx \in DecodeDeliveries : send_command_loop(0, rx, TRUE)
    \/ Return(0)

SpecDecode == Init /\ [][NextDecode]_vars

---------------------------------------------------------------------------
(* Both instances in use, as in test.py: their calls and loop iterations    *)
(* interleave in any order, and on each read the device has something on    *)
(* each IN endpoint.                                                        *)

GripInEndpoints ==
    { GripConfiguration[n].endpoints[k] :
          n \in 1 .. Len(GripConfiguration), k \in 1 .. 2 } \ (0 .. 127)

TwoDeliveries ==
    { TimedOut,
      Delivered(Packet(129, 1, 0, DevInfoPayload(7))),
      Delivered(Packet(129, 2, 0, Pattern(48, 8))) }

NextTwo ==
    \E i \in Instances :
        \/ read_device_info(i)
        \/ pair_via_uart(i)
        \/ \E d \in [GripInEndpoints -> TwoDeliveries], wok \in BOOLEAN :
               send_command_loop(i, d[endpoint_in[i]], wok)
        \/ Return(i)

SpecTwo == Init /\ [][NextTwo]_vars

---------------------------------------------------------------------------
(* Properties.  They read the transport log and the packets themselves, not *)
(* the operators the actions are built from.                                *)

\* the packet carries the tag of cmd with the low bit of the group set
AnswersTag(pkt, cmd) ==
    /\ pkt[1] \div 2 = cmd[1] \div 2
    /\ pkt[1] % 2 = 1
    /\ pkt[2] = cmd[2]

\* the packet is a device-info response with a nonzero status
IsDevInfoError(pkt) == pkt[1] = 129 /\ pkt[2] = 1 /\ pkt[3] # 0

\* bytes [3, 3+n) of the packet, as far as the packet goes
PayloadOf(pkt, n) == [j \in 1 .. Min(n, Len(pkt) - 3) |-> pkt[3 + j]]

IsReadAt(i, k) == k \in 1 .. Len(io[i]) /\ io[i][k].kind = "r"

\* positions of the reads of the call that were neither answers nor
\* device-info errors
DiscardedAt(i) ==
    {k \in 1 .. Len(io[i]) :
        /\ io[i][k].kind = "r"
        /\ ~AnswersTag(io[i][k].bytes, command[i])
        /\ ~IsDevInfoError(io[i][k].bytes)}

\* C1: in a call that wants a response, a packet read with cmd_type = g|1 and
\* cmd = o is the last thing the call does on the transport: the call has
\* returned, and returned bytes [3, 3+response_length) of that very packet,
\* whatever was read and discarded before it.
C1_CorrelatedAccepted ==
    \A i \in Instances : \A k \in 1 .. Len(io[i]) :
        (/\ io[i][k].kind = "r"
         /\ response_length[i] > 0
         /\ AnswersTag(io[i][k].bytes, command[i]))
        => /\ k = Len(io[i])
           /\ pc[i] = "ret"
           /\ returned[i].kind = "bytes"
           /\ returned[i].bytes = PayloadOf(io[i][k].bytes, response_length[i])

\* C1 witness: a call returned the payload of its fourth read, after three
\* discarded packets.
C1_Witness ==
    \E i \in Instances :
        /\ pc[i] = "ret"
        /\ Len(io[i]) = 8
        /\ Cardinality(DiscardedAt(i)) = 3
        /\ AnswersTag(io[i][8].bytes, command[i])
        /\ returned[i].kind = "bytes"
        /\ Len(returned[i].bytes) = 61

\* C2: in a call that wants a response the transport operations alternate
\* write, read, write, read, ...; every write carries the bytes of the first
\* write (the request); every discarded packet is followed at once by such a
\* write; and when the call returns, the resends (writes after the first) are
\* as many as the discarded packets: three discarded packets and an answer
\* make 4 writes and 4 reads.
C2_ResendPerDiscard ==
    \A i \in Instances :
        response_length[i] > 0 =>
            /\ \A k \in 1 .. Len(io[i]) :
                   io[i][k].kind = (IF k % 2 = 1 THEN "w" ELSE "r")
            /\ \A k \in 1 .. Len(io[i]) :
                   io[i][k].kind = "w" =>
                       io[i][k].bytes = io[i][1].bytes /\ io[i][k].bytes = command[i]
            /\ \A k \in DiscardedAt(i) :
                   /\ k < Len(io[i])
                   /\ io[i][k + 1].kind = "w"
                   /\ io[i][k + 1].bytes = io[i][1].bytes
            /\ (pc[i] = "ret" /\ returned[i].kind # "raise") =>
                   NumWrites(io[i]) - 1 = Cardinality(DiscardedAt(i))
            /\ (pc[i] = "ret" /\ returned[i].kind = "bytes"
                    /\ Cardinality(DiscardedAt(i)) = 3) =>
                   NumWrites(io[i]) = 4 /\ NumReads(io[i]) = 4

\* C2 witness: read_device_info read three stale relay packets (tag 0x81,0x92)
\* and then a device-info response with status 0, and decoded it.
C2_Witness ==
    \E i \in Instances :
        /\ pc[i] = "ret"
        /\ op[i].name = "read_device_info" /\ ~op[i].raw
        /\ Len(io[i]) = 8
        /\ \A k \in {2, 4, 6} : io[i][k].bytes[1] = 129 /\ io[i][k].bytes[2] = 146
        /\ io[i][8].bytes[1] = 129 /\ io[i][8].bytes[2] = 1 /\ io[i][8].bytes[3] = 0
        /\ NumWrites(io[i]) = 4
        /\ out[i].kind = "dict"

\* C3 as claimed: when the device-info command is issued and the first packet
\* read is {0x81, 0x01, status # 0}, the call reports no response and has
\* written once.
C3_AbortOnOwnError ==
    \A i \in Instances :
        (/\ command[i] = <<128, 1>>
         /\ response_length[i] > 0
         /\ IsReadAt(i, 2)
         /\ IsDevInfoError(io[i][2].bytes))
        => /\ pc[i] = "ret"
           /\ returned[i].kind = "None"
           /\ NumWrites(io[i]) = 1

\* C3 amended: when the device-info command is issued and the first packet
\* read is {0x81, 0x01, status # 0}, that packet is the answer: the call ends
\* at once with zero resends, prints the status warning and returns the
\* packet's payload; read_device_info decodes it like any other.
C3_OwnErrorIsAnswer ==
    \A i \in Instances :
        (/\ command[i] = <<128, 1>>
         /\ response_length[i] > 0
         /\ IsReadAt(i, 2)
         /\ IsDevInfoError(io[i][2].bytes))
        => /\ pc[i] = "ret"
           /\ Len(io[i]) = 2
           /\ NumWrites(io[i]) = 1
           /\ warned[i]
           /\ returned[i].kind = "bytes"
           /\ returned[i].bytes = PayloadOf(io[i][2].bytes, response_length[i])
           /\ (op[i].name = "read_device_info" /\ ~op[i].raw) => out[i].kind = "dict"

\* C3 witness: read_device_info got {0x81, 0x01, 5} as its first packet.
C3_Witness ==
    \E i \in Instances :
        /\ op[i].name = "read_device_info"
        /\ command[i] = <<128, 1>>
        /\ IsReadAt(i, 2)
        /\ IsDevInfoError(io[i][2].bytes)
        /\ pc[i] = "ret"

\* C4: while a call waits for the response to a command other than
\* device-info, a packet {0x81, 0x01, status # 0} ends it: the call has
\* returned None and that read is its last transport operation.
C4_FatalShortcutEnds ==
    \A i \in Instances : \A k \in 1 .. Len(io[i]) :
        (/\ io[i][k].kind = "r"
         /\ response_length[i] > 0
         /\ command[i] # <<128, 1>>
         /\ IsDevInfoError(io[i][k].bytes))
        => /\ k = Len(io[i])
           /\ pc[i] = "ret"
           /\ returned[i] = RNone

\* C4 witness: a relay command was resent once and then met the device-info
\* error packet.
C4_Witness ==
    \E i \in Instances :
        /\ pc[i] = "ret"
        /\ Len(io[i]) = 4
        /\ command[i][1] = 128 /\ command[i][2] = 146
        /\ IsDevInfoError(io[i][4].bytes)
        /\ returned[i].kind = "None"

\* C5: a call with response_length 0 does one write of the request and no
\* read, and returns None when the write went through (it never returns
\* data); restrict_to_hid is such a call with tag {0x80,0x04}, reset one with
\* tag {0x82,0x02}.
C5_FireAndForget ==
    \A i \in Instances :
        /\ (pc[i] # "idle" /\ io[i] # <<>> /\ response_length[i] = 0) =>
               /\ Len(io[i]) = 1
               /\ io[i][1].kind = "w"
               /\ io[i][1].bytes = command[i]
               /\ pc[i] = "ret"
               /\ returned[i].kind = (IF io[i][1].ok THEN "None" ELSE "raise")
        /\ op[i].name = "restrict_to_hid" =>
               response_length[i] = 0 /\ command[i] = <<128, 4>>
        /\ op[i].name = "reset" =>
               response_length[i] = 0 /\ command[i] = <<130, 2>>

\* C5 witness: restrict_to_hid wrote its request and returned.
C5_Witness ==
    \E i \in Instances :
        /\ op[i].name = "restrict_to_hid"
        /\ pc[i] = "ret"
        /\ Len(io[i]) = 1
        /\ io[i][1].kind = "w" /\ io[i][1].ok /\ io[i][1].bytes = <<128, 4>>
        /\ returned[i].kind = "None"

\* C6: when the answer carries a nonzero status the call returns the answer's
\* payload as it does for status 0; the status decides only whether the
\* warning is printed.
C6_StatusOnlyWarns ==
    \A i \in Instances :
        (/\ pc[i] = "ret"
         /\ response_length[i] > 0
         /\ io[i][Len(io[i])].kind = "r"
         /\ AnswersTag(io[i][Len(io[i])].bytes, command[i]))
        => /\ returned[i].kind = "bytes"
           /\ returned[i].bytes = PayloadOf(io[i][Len(io[i])].bytes, response_length[i])
           /\ warned[i] = (io[i][Len(io[i])].bytes[3] # 0)
           /\ NumWrites(io[i]) = NumReads(io[i])

\* C6 witness: a relay command got its answer with status 9 and returned the
\* 61 payload bytes.
C6_Witness ==
    \E i \in Instances :
        /\ pc[i] = "ret"
        /\ io[i] # <<>>
        /\ command[i][2] = 146
        /\ io[i][Len(io[i])].kind = "r"
        /\ io[i][Len(io[i])].bytes[1] = 129
        /\ io[i][Len(io[i])].bytes[2] = 146
        /\ io[i][Len(io[i])].bytes[3] = 9
        /\ warned[i]
        /\ returned[i].kind = "bytes"
        /\ Len(returned[i].bytes) = 61

\* what send_uart_command hands back: send_command's bytes without their
\* first 7
UartPayload(i) == [j \in 1 .. Len(returned[i].bytes) - 7 |-> returned[i].bytes[7 + j]]

C8_ShortResponseRaises ==
    \A i \in Instances :
        (pc[i] = "ret" /\ returned[i].kind = "bytes") =>
            /\ (/\ op[i].name = "send_bluetooth_command"
                /\ Len(returned[i].bytes) - 7 < 15 + op[i].rlen)
               => out[i].kind = "raise" /\ out[i].exc = "MalformedResponse"
            /\ (/\ op[i].name = "send_uart_command"
                /\ Len(returned[i].bytes) < 7)
               => out[i].kind = "raise" /\ out[i].exc = "MalformedResponse"

\* C9: the request send_uart_command writes carries, after the 2-byte tag, the
\* command byte unchanged and then the length of the argument as two bytes,
\* low byte first, for every argument length in 0..65535 (and every such call
\* gets as far as writing).
C9_HeaderLength ==
    \A i \in Instances :
        (/\ op[i].name = "send_uart_command"
         /\ op[i].cmd \in 0 .. 255
         /\ Len(op[i].arg) <= 65535)
        => /\ io[i] # <<>>
           /\ \A k \in 1 .. Len(io[i]) :
                  io[i][k].kind = "w" =>
                      LET w == io[i][k].bytes
                      IN  /\ w[3] = op[i].cmd
                          /\ w[4] \in 0 .. 255
                          /\ w[5] \in 0 .. 255
                          /\ w[4] + 256 * w[5] = Len(op[i].arg)

\* C9 witness: an argument of 300 bytes (0x012C) was written under command 90
\* with length bytes 2C 01.
C9_Witness ==
    \E i \in Instances :
        /\ op[i].name = "send_uart_command"
        /\ op[i].cmd = 90
        /\ Len(op[i].arg) = 300
        /\ io[i] # <<>>
        /\ io[i][1].bytes[3] = 90
        /\ io[i][1].bytes[4] = 44
        /\ io[i][1].bytes[5] = 1

\* C10: read_device_info on an 8-byte payload d never fails; it yields type =
\* d[0] and mac = d[1] + 2^8 d[2] + ... + 2^40 d[6] (here in 24-bit halves);
\* d[7] does not matter; the payload 01 66 55 44 33 22 11 xx yields type 1 and
\* mac 0x112233445566; raw mode yields the 8 bytes themselves.
C10_DeviceInfoDecode ==
    \A i \in Instances :
        (/\ op[i].name = "read_device_info"
         /\ pc[i] = "ret"
         /\ returned[i].kind = "bytes"
         /\ Len(returned[i].bytes) = 8)
        => LET d == returned[i].bytes
           IN  IF op[i].raw
               THEN /\ out[i].kind = "bytes"
                    /\ out[i].bytes = PayloadOf(io[i][Len(io[i])].bytes, 8)
               ELSE /\ out[i].kind = "dict"
                    /\ out[i].type = d[1]
                    /\ out[i].mac.lo = d[2] + 256 * d[3] + 65536 * d[4]
                    /\ out[i].mac.hi = d[5] + 256 * d[6] + 65536 * d[7]
                    /\ \A b \in {0, 77, 255} :
                           read_device_info_result(FALSE, RBytes([d EXCEPT ![8] = b])) = out[i]
                    /\ SubSeq(d, 1, 7) = <<1, 102, 85, 68, 51, 34, 17>> =>
                           /\ out[i].type = 1
                           /\ out[i].mac = [lo |-> 4478310, hi |-> 1122867]

\* C10 witness: the payload 01 66 55 44 33 22 11 99 was decoded.
C10_Witness ==
    \E i \in Instances :
        /\ op[i].name = "read_device_info"
        /\ ~op[i].raw
        /\ pc[i] = "ret"
        /\ returned[i].kind = "bytes"
        /\ returned[i].bytes = <<1, 102, 85, 68, 51, 34, 17, 153>>
        /\ out[i].kind = "dict"
        /\ out[i].mac.hi = 1122867

\* the write carries the enter-DFU tag {0x82, 0x01}
IsDfuWrite(e) == e.kind = "w" /\ Len(e.bytes) >= 2 /\ e.bytes[1] = 130 /\ e.bytes[2] = 1

StateOf(i) ==
    <<pc[i], op[i], command[i], response_length[i], resp[i], warned[i], io[i],
      returned[i], out[i], lock_dfu_command[i], endpoint_in[i], endpoint_out[i]>>

\* the endpoints of interface i of the grip: IN 0x81 + i, OUT 0x01 + i
OwnEndpoint(i, kind) == IF kind = "r" THEN 129 + i ELSE 1 + i

\* C12: with the two instances' operations interleaved, every step changes
\* the state of one instance only; after it every transport operation of an
\* instance is on that instance's own endpoint (writes on its OUT endpoint,
\* reads on its IN endpoint), and bytes an instance returns are the payload
\* of the last packet read on its own IN endpoint.
C12_Independent ==
    [][\A i \in Instances :
          /\ StateOf(i)' # StateOf(i) =>
                 \A j \in Instances \ {i} : StateOf(j)' = StateOf(j)
          /\ \A k \in 1 .. Len(io'[i]) :
                 io'[i][k].ep = OwnEndpoint(i, io'[i][k].kind)
          /\ (pc'[i] = "ret" /\ returned'[i].kind = "bytes") =>
                 /\ io'[i][Len(io'[i])].kind = "r"
                 /\ returned'[i].bytes =
                        PayloadOf(io'[i][Len(io'[i])].bytes, response_length'[i])
      ]_vars

\* C12 witness: instance 0 has returned the payload of its second read while
\* instance 1 is inside its own loop, one resend made, with another command.
C12_Witness ==
    /\ pc[0] = "ret"
    /\ returned[0].kind = "bytes"
    /\ Len(io[0]) = 4
    /\ io[0][4].ep = 129
    /\ pc[1] = "wait"
    /\ Len(io[1]) = 3
    /\ io[1][3].ep = 2
    /\ command[0] # command[1]

\* C13: a transport write that fails, the first of a call or a resend, is
\* the call's last transport operation: send_command raises the USBError, and
\* so does the public call that made it; no data is returned.
C13_WriteFailurePropagates ==
    \A i \in Instances : \A k \in 1 .. Len(io[i]) :
        (io[i][k].kind = "w" /\ ~io[i][k].ok)
        => /\ k = Len(io[i])
           /\ pc[i] = "ret"
           /\ returned[i] = RRaise("USBError")
           /\ out[i] = RRaise("USBError")

\* C13 witness: pair_via_uart's second resend failed.
C13_Witness ==
    \E i \in Instances :
        /\ op[i].name = "pair_via_uart"
        /\ Len(io[i]) = 5
        /\ io[i][5].kind = "w"
        /\ ~io[i][5].ok
        /\ pc[i] = "ret"
        /\ out[i].exc = "USBError"

\* C14: a read that failed (timeout) yields 64 zero bytes, the length usb_read
\* asked for; it does not end the loop, whatever the command: the request is
\* written again right after it, and if that write went through the call is
\* still waiting.
C14_TimeoutResends ==
    \A i \in Instances : \A k \in 1 .. Len(io[i]) :
        (io[i][k].kind = "r" /\ ~io[i][k].ok)
        => /\ Len(io[i][k].bytes) = 64
           /\ \A j \in 1 .. 64 : io[i][k].bytes[j] = 0
           /\ k < Len(io[i])
           /\ io[i][k + 1].kind = "w"
           /\ io[i][k + 1].bytes = io[i][1].bytes
           /\ (k + 1 = Len(io[i]) /\ io[i][k + 1].ok) => pc[i] = "wait"

\* C14 witness: a reset-group command (tag 0x82) had its first read time out,
\* resent, and then got its answer.
C14_Witness ==
    \E i \in Instances :
        /\ Len(io[i]) = 4
        /\ command[i][1] = 130
        /\ ~io[i][2].ok
        /\ io[i][3].kind = "w" /\ io[i][3].ok
        /\ io[i][4].ok
        /\ pc[i] = "ret"
        /\ returned[i].kind = "bytes"


-----------------------------------------------------------------------------
\* The loop of send_command without a bound on its iterations, and a device
\* that eventually delivers a packet which ends the call.

LiveDeliveries ==
    TwoDeliveries \cup { Delivered(Packet(129, 1, 5, Pattern(32, 8))) }

\* the packet ends a call that sent cmd
EndsCall(pkt, cmd) == AnswersTag(pkt, cmd) \/ IsDevInfoError(pkt)

\* the device delivers a packet that ends the waiting call
TerminalDelivery(i) ==
    \E rx \in LiveDeliveries :
        /\ pc[i] = "wait"
        /\ rx.ok
        /\ EndsCall(rx.pkt, command[i])
        /\ \/ send_command_loop(i, rx, TRUE)
           \/ send_command_loop_beyond(i, rx, TRUE)

\* an iteration whose read times out and whose resend goes through
TimeoutIteration(i) ==
    /\ \/ send_command_loop(i, TimedOut, TRUE)
       \/ send_command_loop_beyond(i, TimedOut, TRUE)
    /\ pc'[i] = "wait"

NextLive ==
    \/ read_device_info(0)
    \/ pair_via_uart(0)
    \/ \E rx \in LiveDeliveries, wok \in BOOLEAN : send_command_loop(0, rx, wok)
    \/ \E rx \in LiveDeliveries, wok \in BOOLEAN :
           send_command_loop_beyond(0, rx, wok)
    \/ Return(0)

SpecLive == Init /\ [][NextLive]_vars /\ WF_vars(TerminalDelivery(0))

\* C15: a call that waits for a response ends once the device delivers a
\* packet answering its tag or a device-info error packet, so with a device
\* that eventually delivers one the call eventually ends; it returns a value
\* only on reading such a packet; and nothing else ends the loop: however many
\* reads have timed out, the call is still waiting and the next timed-out read
\* makes it resend and wait again.
C15_ReturnsIffDelivered ==
    /\ (pc[0] = "wait") ~> (pc[0] = "ret")
    /\ [](pc[0] = "wait" => ENABLED TimeoutIteration(0))
    /\ [][(pc[0] = "wait" /\ pc'[0] = "ret" /\ returned'[0].kind # "raise")
            => EndsCall(<<resp'[0].cmd_type, resp'[0].cmd, resp'[0].status>>,
                        command[0])]_vars

\* a call whose first MaxReads reads all timed out went on reading and has
\* returned the response that came later
C15_Witness ==
    /\ pc[0] = "ret"
    /\ returned[0].kind = "bytes"
    /\ NumReads(io[0]) = MaxReads
    /\ \A k \in 1 .. Len(io[0]) : io[0][k].kind = "r" => ~io[0][k].ok
    /\ io[0][Len(io[0])].kind = "w"

\* the writes of a send_uart_command call that got as far as the transport
IsUartWrite(i, k) ==
    /\ op[i].name = "send_uart_command"
    /\ k \in 1 .. Len(io[i])
    /\ io[i][k].kind = "w"

\* C16 as stated: the request of send_uart_command is the tag 80 92, a header
\* of 7 bytes and the argument, which begins at offset 9.
C16_HeaderSevenBytes ==
    \A i \in Instances : \A k \in 1 .. Len(io[i]) :
        IsUartWrite(i, k) =>
            LET w == io[i][k].bytes
            IN  /\ Len(w) = 9 + Len(op[i].arg)
                /\ \A j \in 1 .. Len(op[i].arg) : w[9 + j] = op[i].arg[j]

\* C16: the request of send_uart_command is the tag 80 92, a header of 6
\* bytes (the command byte, the argument's length as two bytes low byte first,
\* three zero bytes) and the argument, which begins at offset 8.
C16_HeaderSixBytes ==
    \A i \in Instances : \A k \in 1 .. Len(io[i]) :
        IsUartWrite(i, k) =>
            LET w == io[i][k].bytes
            IN  /\ Len(w) = 8 + Len(op[i].arg)
                /\ w[1] = 128 /\ w[2] = 146
                /\ w[3] = op[i].cmd
                /\ w[4] = Len(op[i].arg) % 256
                /\ w[5] = Len(op[i].arg) \div 256
                /\ w[6] = 0 /\ w[7] = 0 /\ w[8] = 0
                /\ \A j \in 1 .. Len(op[i].arg) : w[8 + j] = op[i].arg[j]

\* C16 witness: a one-byte argument was written as the ninth and last byte of
\* the request.
C16_Witness ==
    \E i \in Instances :
        /\ IsUartWrite(i, 1)
        /\ Len(op[i].arg) = 1
        /\ Len(io[i][1].bytes) = 9
        /\ io[i][1].bytes[9] = op[i].arg[1]

\* C17: every packet a send_bluetooth_command call writes, the first and each
\* resend, is the tag 80 92, the UART header with command 0 and length
\* 11 + len(argument), then command, 00 00 01 40 40 00 01 40 40, subcommand
\* and the argument; whatever the caller passes, the nine rumble bytes are
\* those.
C17_NestedFrame ==
    \A i \in Instances : \A k \in 1 .. Len(io[i]) :
        (op[i].name = "send_bluetooth_command" /\ io[i][k].kind = "w")
        => LET w == io[i][k].bytes
               n == Len(op[i].arg)
           IN  /\ Len(w) >= 19
               /\ <<w[1], w[2]>> = <<128, 146>>
               /\ w[3] = 0
               /\ w[4] + 256 * w[5] = 11 + n
               /\ <<w[6], w[7], w[8]>> = <<0, 0, 0>>
               /\ w[9] = op[i].cmd
               /\ [j \in 1 .. 9 |-> w[9 + j]] = <<0, 0, 1, 64, 64, 0, 1, 64, 64>>
               /\ w[19] = op[i].sub
               /\ [j \in 1 .. Len(w) - 19 |-> w[19 + j]] = op[i].arg

\* C17 witness: a call with a one-byte argument has written its request and
\* resent it, 20 bytes each time.
C17_Witness ==
    \E i \in Instances :
        /\ op[i].name = "send_bluetooth_command"
        /\ Len(op[i].arg) = 1
        /\ NumWrites(io[i]) >= 2
        /\ Len(io[i][1].bytes) = 20
        /\ io[i][Len(io[i])].kind = "w"
        /\ Len(io[i][Len(io[i])].bytes) = 20

\* C18 as stated: a read asks for response_length + 3 bytes (a timed-out read
\* yields that many zeros), and a call answered by a full packet returns
\* exactly response_length bytes, for response_length up to 64.
C18_ExactLength ==
    \A i \in Instances :
        /\ \A k \in 1 .. Len(io[i]) :
               (io[i][k].kind = "r" /\ ~io[i][k].ok)
               => Len(io[i][k].bytes) = response_length[i] + 3
        /\ (/\ pc[i] = "ret"
            /\ returned[i].kind = "bytes"
            /\ response_length[i] \in 1 .. 64
            /\ io[i][Len(io[i])].kind = "r"
            /\ Len(io[i][Len(io[i])].bytes) = 64)
           => Len(returned[i].bytes) = response_length[i]

\* C19 as stated: when send_command gave up on a device-info error packet and
\* returned None to send_uart_command or send_bluetooth_command, the call
\* hands its caller a "no response" outcome and raises nothing.
C19_AbortSurfaced ==
    \A i \in Instances :
        (/\ op[i].name \in {"send_uart_command", "send_bluetooth_command"}
         /\ pc[i] = "ret"
         /\ returned[i].kind = "None")
        => out[i].kind = "None"

\* C20: every packet a pair_via_uart call writes is 80 02; the call reports
\* True exactly when its last read delivered a packet tagged 81 02, whatever
\* that packet's status byte, and False exactly when its last read delivered
\* a device-info error packet; the packets read and discarded before that
\* have no part in the result.
C20_PairResult ==
    \A i \in Instances :
        op[i].name = "pair_via_uart" =>
            /\ \A k \in 1 .. Len(io[i]) :
                   io[i][k].kind = "w" => io[i][k].bytes = <<128, 2>>
            /\ pc[i] = "ret" =>
                   LET last == io[i][Len(io[i])]
                       got  == last.kind = "r" /\ last.ok
                   IN  /\ out[i] = RBool(TRUE)
                           <=> (got /\ last.bytes[1] = 129 /\ last.bytes[2] = 2)
                       /\ out[i] = RBool(FALSE)
                           <=> (got /\ IsDevInfoError(last.bytes))
                       /\ out[i].kind \in {"bool", "raise"}

\* C20 witness: a pair_via_uart call discarded a device-info response and a
\* timed-out read, then read 81 02 with status 7 and reported True.
C20_Witness ==
    \E i \in Instances :
        /\ op[i].name = "pair_via_uart"
        /\ pc[i] = "ret"
        /\ Len(io[i]) = 6
        /\ io[i][2].ok /\ io[i][2].bytes[2] = 1
        /\ ~io[i][4].ok
        /\ io[i][6].bytes[2] = 2
        /\ io[i][6].bytes[3] = 7
        /\ out[i] = RBool(TRUE)
=============================================================================
